---- MODULE Spec2Model ----
(***************************************************************************)
(* Replica allocation, load-balancer port layout and the client-side       *)
(* dispatchers of DeepSpeed-MII (mii/deployment.py, mii/client.py).        *)
(*                                                                         *)
(* Spec       : deploy(), with _allocate_processes run step by step.       *)
(* ClientSpec : MIIClient / MIITensorParallelClient on one asyncio loop.   *)
(***************************************************************************)
EXTENDS Integers, Sequences, FiniteSets, TLC

\* ------------------------------------------------------------------ bounds
MaxHosts == 2
MaxSlots == 8
MaxWidth == 4
MaxReplicas == 3
BasePort == 100
MaxRanks == 3
MaxCalls == 2

\* ---------------------------------------------------------------- variables
VARIABLES
    \* deploy()
    dpc,                    \* position inside deploy
    deployment_type,        \* "LOCAL" | "AML" | "OTHER"
    name_allowed,           \* set(deployment_name) <= allowed_chars
    enable_load_balancing,  \* mii_config.enable_load_balancing
    port_number,            \* mii_config.port_number, None until deploy reads it
    torch_dist_port,        \* mii_config.torch_dist_port, None until deploy reads it
    lb_config,              \* None, or [port, replica_configs]
    score_file,             \* what create_score_file persisted
    deployed,               \* which deployment step ran
    error,                  \* the exception deploy raised, NoError if none
    \* _allocate_processes()
    apc,                    \* position inside _allocate_processes
    resource_pool,          \* slots per host, in insertion order (host = index)
    tensor_parallel,
    num_replicas,
    hostIdx,                \* the host the for loop is at
    available_on_host,
    replica_pool,
    allocated_num,
    \* the query handle of mii_query_handle and the asyncio loop its clients share
    handle,                 \* "MIIClient" | "MIITensorParallelClient"
    num_clients,            \* len(self.clients); 1 for an MIIClient
    task_known,             \* self.task in GRPC_METHOD_TABLE
    cpc,                    \* the call the handle is in: "idle" | "query" | "terminate"
    calls,                  \* calls made on the handle so far
    term_rank,              \* the client MIITensorParallelClient.terminate is at
    tasks,                  \* the live tasks of the loop
    ready,                  \* the loop's FIFO of ready callbacks (task keys, or the query's main coroutine)
    responses,              \* _query_in_tensor_parallel.responses (task keys)
    waiting_on,             \* the task whose completion the running call awaits
    last_result,            \* what the last call returned or raised
    terminated              \* per client: the call in which its terminate() completed, 0 if none

deployVars == <<dpc, deployment_type, name_allowed, enable_load_balancing,
                port_number, torch_dist_port, lb_config, score_file, deployed, error>>
allocVars == <<apc, resource_pool, tensor_parallel, num_replicas, hostIdx,
               available_on_host, replica_pool, allocated_num>>
clientVars == <<handle, num_clients, task_known, cpc, calls, term_rank, tasks, ready,
                responses, waiting_on, last_result, terminated>>
vars == <<deployVars, allocVars, clientVars>>

None == <<>>
NoError == <<>>

\* ------------------------------------------------------------------ inputs
DeploymentTypes == {"LOCAL", "AML", "OTHER"}
RECURSIVE SeqsUpTo(_, _)
SeqsUpTo(S, n) ==
    IF n = 0 THEN {<<>>}
    ELSE LET shorter == SeqsUpTo(S, n - 1)
         IN  shorter \cup {Append(s, x) : s \in {t \in shorter : Len(t) = n - 1}, x \in S}
ResourcePools == SeqsUpTo(0..MaxSlots, MaxHosts)
Widths == 0..MaxWidth
ReplicaCounts == 0..MaxReplicas
PortNumbers == {BasePort, BasePort + 1}
TorchDistPorts == {BasePort - MaxReplicas, BasePort, BasePort + 2}

\* ------------------------------------------------------- _allocate_processes
\* list(range(lo, hi))
Range(lo, hi) == [i \in 1..(IF hi > lo THEN hi - lo ELSE 0) |-> lo + i - 1]

\* while available_on_host >= tensor_parallel
CanCarveAnywhere(available, tp) == available > 0
CanCarve(available, tp) == available >= tp

\* allocated_num_on_host = slots - available_on_host; range(that, that + tensor_parallel)
GpuIndicesFromZero(slots, available, tp) == Range(0, tp)
GpuIndices(slots, available, tp) ==
    LET allocated_num_on_host == slots - available
    IN  Range(allocated_num_on_host, allocated_num_on_host + tp)

\* if allocated_num < num_replicas: raise
ShortOfReplicasOffByOne(allocated, requested) == allocated + 1 < requested
ShortOfReplicas(allocated, requested) == allocated < requested

\* if allocated_num >= num_replicas: break
EnoughReplicas(allocated, requested) == allocated >= requested

\* deploy line 108: the call is in no try block, an exception of
\* _allocate_processes leaves deploy
AllocationErrorSwallowed == "score"
AllocationErrorPropagates == "raised"

AllocInit ==
    /\ apc = "idle"
    /\ resource_pool = <<>>
    /\ tensor_parallel = 0
    /\ num_replicas = 0
    /\ hostIdx = 0
    /\ available_on_host = 0
    /\ replica_pool = <<>>
    /\ allocated_num = 0

\* deploy line 108 calls _allocate_processes; lines 164-169
AllocCall ==
    /\ dpc = "lb"
    /\ enable_load_balancing
    /\ \E pool \in ResourcePools, tp \in Widths, n \in ReplicaCounts :
        /\ resource_pool' = pool
        /\ tensor_parallel' = tp
        /\ num_replicas' = n
        /\ IF Len(pool) > 0
           THEN /\ apc' = "for"
                /\ dpc' = "allocating"
                /\ error' = NoError
           ELSE /\ apc' = "raised"
                /\ dpc' = AllocationErrorPropagates
                /\ error' = <<"NoHostsFound">>
    /\ hostIdx' = 0
    /\ replica_pool' = <<>>
    /\ allocated_num' = 0
    /\ available_on_host' = 0
    /\ UNCHANGED <<deployment_type, name_allowed, enable_load_balancing, port_number,
                   torch_dist_port, lb_config, score_file, deployed>>
    /\ UNCHANGED clientVars

\* for host, slots in resource_pool.items(): available_on_host = slots
ForNext ==
    /\ apc = "for"
    /\ IF hostIdx < Len(resource_pool)
       THEN /\ hostIdx' = hostIdx + 1
            /\ available_on_host' = resource_pool[hostIdx + 1]
            /\ apc' = "while"
       ELSE /\ apc' = "after"
            /\ UNCHANGED <<hostIdx, available_on_host>>
    /\ UNCHANGED <<resource_pool, tensor_parallel, num_replicas, replica_pool, allocated_num>>
    /\ UNCHANGED deployVars
    /\ UNCHANGED clientVars

\* one evaluation of the while condition and, when it holds, one pass of its body
WhileStep ==
    /\ apc = "while"
    /\ LET host == hostIdx
           slots == resource_pool[hostIdx]
       IN  IF ~CanCarve(available_on_host, tensor_parallel)
           THEN /\ apc' = "for"
                /\ UNCHANGED <<replica_pool, allocated_num, available_on_host, dpc, error>>
           ELSE IF EnoughReplicas(allocated_num, num_replicas)
           THEN /\ apc' = "for"
                /\ UNCHANGED <<replica_pool, allocated_num, available_on_host, dpc, error>>
           ELSE IF slots < tensor_parallel
           THEN /\ apc' = "raised"
                /\ dpc' = AllocationErrorPropagates
                /\ error' = <<"HostSlots", host, slots, tensor_parallel>>
                /\ UNCHANGED <<replica_pool, allocated_num, available_on_host>>
           ELSE /\ replica_pool' = Append(replica_pool,
                        [hostname |-> host,
                         gpu_indices |-> GpuIndices(slots, available_on_host, tensor_parallel)])
                /\ allocated_num' = allocated_num + 1
                /\ available_on_host' = available_on_host - tensor_parallel
                /\ apc' = "while"
                /\ UNCHANGED <<dpc, error>>
    /\ UNCHANGED <<resource_pool, tensor_parallel, num_replicas, hostIdx>>
    /\ UNCHANGED <<deployment_type, name_allowed, enable_load_balancing, port_number,
                   torch_dist_port, lb_config, score_file, deployed>>
    /\ UNCHANGED clientVars

\* lines 196-201
AllocFinish ==
    /\ apc = "after"
    /\ IF ShortOfReplicas(allocated_num, num_replicas)
       THEN /\ apc' = "raised"
            /\ dpc' = AllocationErrorPropagates
            /\ error' = <<"NoSufficientGPUs", num_replicas, allocated_num>>
       ELSE /\ apc' = "returned"
            /\ dpc' = "build"
            /\ UNCHANGED error
    /\ UNCHANGED <<resource_pool, tensor_parallel, num_replicas, hostIdx,
                   available_on_host, replica_pool, allocated_num>>
    /\ UNCHANGED <<deployment_type, name_allowed, enable_load_balancing, port_number,
                   torch_dist_port, lb_config, score_file, deployed>>
    /\ UNCHANGED clientVars

\* -------------------------------------------------------------------- deploy
\* port_offset = 1 if mii_config.enable_load_balancing else 0
PortOffsetByReplicaCount(enabled, replicas) == IF Len(replicas) > 1 THEN 1 ELSE 0
PortOffset(enabled, replicas) == IF enabled THEN 1 ELSE 0

\* base_port = mii_config.port_number + i * mii_config.tensor_parallel + port_offset
ReplicaBasePortNoStride(port, i, tp, offset) == port + i + offset
ReplicaBasePort(port, i, tp, offset) == port + i * tp + offset

\* lines 111-124; enumerate() counts from 0, the sequence from 1
ReplicaConfigs(replicas, tp, port, dist_port, enabled) ==
    [k \in 1..Len(replicas) |->
        LET i == k - 1
            base_port == ReplicaBasePort(port, i, tp, PortOffset(enabled, replicas))
        IN  [hostname |-> replicas[k].hostname,
             tensor_parallel_ports |-> Range(base_port, base_port + tp),
             torch_dist_port |-> dist_port + i,
             gpu_indices |-> replicas[k].gpu_indices]]

DeployInit ==
    /\ dpc = "start"
    /\ deployment_type \in DeploymentTypes
    /\ name_allowed \in BOOLEAN
    /\ enable_load_balancing \in BOOLEAN
    /\ port_number = None
    /\ torch_dist_port = None
    /\ lb_config = None
    /\ score_file = None
    /\ deployed = "nothing"
    /\ error = NoError

\* lines 77-81: the name is checked for AML deployments only
NameRejectedForLocal(type, allowed) == type = "LOCAL" /\ ~allowed
NameRejected(type, allowed) == type = "AML" /\ ~allowed

\* lines 68-103: the config is parsed and checked (69-75), the AML deployment name
\* is checked (77-81), the task and the model are checked (83-88); each may raise
DeployValidate ==
    /\ dpc = "start"
    /\ \E config_ok, model_ok \in BOOLEAN :
        IF ~config_ok
        THEN /\ dpc' = "raised"
             /\ error' = <<"MIIConfig">>
        ELSE IF NameRejected(deployment_type, name_allowed)
        THEN /\ dpc' = "raised"
             /\ error' = <<"AMLDeploymentName">>
        ELSE IF ~model_ok
        THEN /\ dpc' = "raised"
             /\ error' = <<"TaskOrModel">>
        ELSE /\ dpc' = "lb"
             /\ UNCHANGED error
    /\ UNCHANGED <<deployment_type, name_allowed, enable_load_balancing, port_number,
                   torch_dist_port, lb_config, score_file, deployed>>
    /\ UNCHANGED allocVars
    /\ UNCHANGED clientVars

\* lines 106-107 with load balancing disabled: lb_config stays None
SkipLoadBalancer ==
    /\ dpc = "lb"
    /\ ~enable_load_balancing
    /\ dpc' = "score"
    /\ UNCHANGED <<deployment_type, name_allowed, enable_load_balancing, port_number,
                   torch_dist_port, lb_config, score_file, deployed, error>>
    /\ UNCHANGED allocVars
    /\ UNCHANGED clientVars

\* lines 111-126; mii_config.port_number and mii_config.torch_dist_port are first read here
BuildLoadBalancerConfig ==
    /\ dpc = "build"
    /\ \E port \in PortNumbers, dist_port \in TorchDistPorts :
        /\ port_number' = port
        /\ torch_dist_port' = dist_port
        /\ lb_config' = [port |-> port,
                         replica_configs |-> ReplicaConfigs(replica_pool, tensor_parallel,
                                                port, dist_port, enable_load_balancing)]
    /\ dpc' = "score"
    /\ UNCHANGED <<deployment_type, name_allowed, enable_load_balancing,
                   score_file, deployed, error>>
    /\ UNCHANGED allocVars
    /\ UNCHANGED clientVars

\* lines 128-137
CreateScoreFile ==
    /\ dpc = "score"
    /\ score_file' = <<"score", lb_config>>
    /\ dpc' = "dispatch"
    /\ UNCHANGED <<deployment_type, name_allowed, enable_load_balancing, port_number,
                   torch_dist_port, lb_config, deployed, error>>
    /\ UNCHANGED allocVars
    /\ UNCHANGED clientVars

\* lines 139-144
DeployDispatch ==
    /\ dpc = "dispatch"
    /\ IF deployment_type = "AML"
       THEN /\ deployed' = "aml"
            /\ dpc' = "done"
            /\ UNCHANGED error
       ELSE IF deployment_type = "LOCAL"
       THEN /\ deployed' = "local"
            /\ dpc' = "done"
            /\ UNCHANGED error
       ELSE /\ dpc' = "raised"
            /\ error' = <<"UnknownDeploymentType">>
            /\ UNCHANGED deployed
    /\ UNCHANGED <<deployment_type, name_allowed, enable_load_balancing, port_number,
                   torch_dist_port, lb_config, score_file>>
    /\ UNCHANGED allocVars
    /\ UNCHANGED clientVars

\* ------------------------------------------------------------------- client
\* The handle mii_query_handle returns: one MIIClient, or an
\* MIITensorParallelClient over width MIIClients. Every client's asyncio_loop is
\* asyncio.get_event_loop(), one loop; it runs only inside run_until_complete.
\* A task is [call, rank, kind, st, err]:
\*   kind "request"   a _request_async_response coroutine
\*        "terminate" a terminate_async coroutine
\*   st   "scheduled" given to the loop, not yet run
\*        "awaiting"  suspended in `await stub.<method>(...)`: the RPC is in flight
\*        "done" | "failed" (err says why)
\* A finished task of an earlier call is referenced by nothing and is collected.
Handles == {"MIIClient", "MIITensorParallelClient"}
NoErr == "none"
MainCoroutine == <<"main">>

NewTask(call, rank, kind) ==
    [call |-> call, rank |-> rank, kind |-> kind, st |-> "scheduled", err |-> NoErr]
Key(task) == <<task.call, task.rank, task.kind>>
TaskOf(key) == CHOOSE t \in tasks : Key(t) = key
Collected(ts) == {t \in ts : t.st \notin {"done", "failed"}}

\* for client in self.clients: one task per client, in ports order
DispatchRanksButLast(n) == [i \in 1..(IF n > 1 THEN n - 1 ELSE n) |-> i - 1]
DispatchRanks(n) == [i \in 1..n |-> i - 1]

\* await responses[0]
AwaitedResponse(resps) == resps[1]

\* return responses[0]
ReturnedResponseLast(resps) == resps[Len(resps)]
ReturnedResponse(resps) == resps[1]

\* the payload a worker answers with: which request of which rank it answers
Payload(task) == <<task.call, task.rank>>

\* Task.result(): the value, the stored exception, or InvalidStateError
TaskResult(task) ==
    IF task.st = "done" THEN <<"ok", Payload(task)>>
    ELSE IF task.st = "failed" THEN <<"raised", task.err, task.rank>>
    ELSE <<"raised", "InvalidStateError", task.rank>>

\* the RPC of a task is in flight on its rank's connection
InFlight(task) == task.st = "awaiting"

ClientInit ==
    /\ handle \in Handles
    /\ num_clients \in (IF handle = "MIIClient" THEN {1} ELSE 1..MaxRanks)
    /\ task_known \in BOOLEAN
    /\ cpc = "idle"
    /\ calls = 0
    /\ term_rank = 0
    /\ tasks = {}
    /\ ready = <<>>
    /\ responses = <<>>
    /\ waiting_on = None
    /\ last_result = None
    /\ terminated = [r \in 0..(num_clients - 1) |-> 0]

\* MIIClient.query, lines 77-80: run_until_complete(self._request_async_response(...))
ClientQuery ==
    /\ handle = "MIIClient"
    /\ cpc = "idle"
    /\ calls < MaxCalls
    /\ calls' = calls + 1
    /\ cpc' = "query"
    /\ LET new == NewTask(calls + 1, 0, "request")
       IN  /\ tasks' = Collected(tasks) \cup {new}
           /\ ready' = Append(ready, Key(new))
           /\ waiting_on' = Key(new)
    /\ UNCHANGED <<handle, num_clients, task_known, term_rank, responses, last_result, terminated>>
    /\ UNCHANGED <<deployVars, allocVars>>

\* MIIClient.terminate, lines 86-87: run_until_complete(self.terminate_async())
ClientTerminate ==
    /\ handle = "MIIClient"
    /\ cpc = "idle"
    /\ calls < MaxCalls
    /\ calls' = calls + 1
    /\ cpc' = "terminate"
    /\ term_rank' = 0
    /\ LET new == NewTask(calls + 1, 0, "terminate")
       IN  /\ tasks' = Collected(tasks) \cup {new}
           /\ ready' = Append(ready, Key(new))
           /\ waiting_on' = Key(new)
    /\ UNCHANGED <<handle, num_clients, task_known, responses, last_result, terminated>>
    /\ UNCHANGED <<deployVars, allocVars>>

\* MIITensorParallelClient.query, lines 124-126, and _query_in_tensor_parallel up
\* to `await responses[0]`, lines 102-108: the main coroutine creates one task per
\* client and suspends
TensorParallelQuery ==
    /\ handle = "MIITensorParallelClient"
    /\ cpc = "idle"
    /\ calls < MaxCalls
    /\ calls' = calls + 1
    /\ cpc' = "query"
    /\ LET ranks == DispatchRanks(num_clients)
           new == [i \in 1..Len(ranks) |-> NewTask(calls + 1, ranks[i], "request")]
           keys == [i \in 1..Len(ranks) |-> Key(new[i])]
       IN  /\ tasks' = Collected(tasks) \cup {new[i] : i \in 1..Len(ranks)}
           /\ ready' = ready \o keys
           /\ responses' = keys
           /\ waiting_on' = AwaitedResponse(keys)
    /\ UNCHANGED <<handle, num_clients, task_known, term_rank, last_result, terminated>>
    /\ UNCHANGED <<deployVars, allocVars>>

\* MIITensorParallelClient.terminate, lines 129-132: the loop enters
\* clients[0].terminate()
TensorParallelTerminate ==
    /\ handle = "MIITensorParallelClient"
    /\ cpc = "idle"
    /\ calls < MaxCalls
    /\ calls' = calls + 1
    /\ cpc' = "terminate"
    /\ term_rank' = 0
    /\ LET new == NewTask(calls + 1, 0, "terminate")
       IN  /\ tasks' = Collected(tasks) \cup {new}
           /\ ready' = Append(ready, Key(new))
           /\ waiting_on' = Key(new)
    /\ UNCHANGED <<handle, num_clients, task_known, responses, last_result, terminated>>
    /\ UNCHANGED <<deployVars, allocVars>>

\* for client in self.clients: client.terminate() goes on to the next client only
\* when this one's terminate() returned
TerminateGoesOn(rank, n) == rank + 1 < n

\* Task `before` has become `after`, with `queue` the ready queue left. If `after`
\* has finished and is what the running call awaits, the call moves on: the query's
\* main coroutine is queued, or the coroutine given to run_until_complete is over
\* and the call returns or raises.
TaskStep(before, after, queue) ==
    LET now == (tasks \ {before}) \cup {after}
    IN  IF ~(after.st \in {"done", "failed"} /\ Key(after) = waiting_on)
        THEN /\ tasks' = now
             /\ ready' = queue
             /\ UNCHANGED <<cpc, term_rank, waiting_on, last_result, terminated>>
        ELSE IF cpc = "query" /\ handle = "MIITensorParallelClient"
        THEN \* `await responses[0]` is over
             /\ tasks' = now
             /\ ready' = Append(queue, MainCoroutine)
             /\ UNCHANGED <<cpc, term_rank, waiting_on, last_result, terminated>>
        ELSE IF cpc = "query"
        THEN \* MIIClient.query returns or raises
             /\ tasks' = now
             /\ ready' = queue
             /\ last_result' = TaskResult(after)
             /\ cpc' = "idle"
             /\ waiting_on' = None
             /\ UNCHANGED <<term_rank, terminated>>
        ELSE IF after.st = "failed"
        THEN \* client.terminate() raises, and with it the loop of line 131
             /\ tasks' = now
             /\ ready' = queue
             /\ last_result' = TaskResult(after)
             /\ cpc' = "idle"
             /\ waiting_on' = None
             /\ UNCHANGED <<term_rank, terminated>>
        ELSE IF handle = "MIITensorParallelClient" /\ TerminateGoesOn(term_rank, num_clients)
        THEN \* line 131: the next client's terminate()
             LET new == NewTask(calls, term_rank + 1, "terminate")
             IN  /\ terminated' = [terminated EXCEPT ![after.rank] = calls]
                 /\ term_rank' = term_rank + 1
                 /\ tasks' = now \cup {new}
                 /\ ready' = Append(queue, Key(new))
                 /\ waiting_on' = Key(new)
                 /\ UNCHANGED <<cpc, last_result>>
        ELSE \* terminate() returns
             /\ terminated' = [terminated EXCEPT ![after.rank] = calls]
             /\ tasks' = now
             /\ ready' = queue
             /\ last_result' = <<"ok", None>>
             /\ cpc' = "idle"
             /\ waiting_on' = None
             /\ UNCHANGED term_rank

\* The transport completes the RPC of an awaiting task with a response or with an
\* error, and the task runs to its end (lines 73-75, which do not suspend). A
\* worker whose Terminate was acknowledged in an earlier call answers no more.
RpcComplete ==
    /\ cpc # "idle"
    /\ \E t \in tasks, ok \in BOOLEAN :
        /\ InFlight(t)
        /\ ok => (terminated[t.rank] = 0 \/ t.call <= terminated[t.rank])
        /\ TaskStep(t,
                    IF ok THEN [t EXCEPT !.st = "done"]
                    ELSE [t EXCEPT !.st = "failed", !.err = "TransportError"],
                    ready)
    /\ UNCHANGED <<handle, num_clients, task_known, calls, responses>>
    /\ UNCHANGED <<deployVars, allocVars>>

\* _request_async_response up to its await, lines 66-72, or terminate_async up to
\* its await, lines 83-84
StartedTask(task) ==
    IF task.kind = "request" /\ ~task_known
    THEN [task EXCEPT !.st = "failed", !.err = "UnknownTask"]
    ELSE [task EXCEPT !.st = "awaiting"]

\* The loop runs the callback at the head of its ready queue: the first step of a
\* task, or the resumption of the query's main coroutine, which returns
\* responses[0] (line 109) for query to return its result() (line 127).
RunReady ==
    /\ cpc # "idle"
    /\ ready # <<>>
    /\ IF Head(ready) = MainCoroutine
       THEN /\ last_result' = TaskResult(TaskOf(ReturnedResponse(responses)))
            /\ cpc' = "idle"
            /\ ready' = Tail(ready)
            /\ waiting_on' = None
            /\ UNCHANGED <<tasks, term_rank, terminated>>
       ELSE TaskStep(TaskOf(Head(ready)), StartedTask(TaskOf(Head(ready))), Tail(ready))
    /\ UNCHANGED <<handle, num_clients, task_known, calls, responses>>
    /\ UNCHANGED <<deployVars, allocVars>>

\* the client process runs no deploy
NoDeploy ==
    /\ dpc = "none"
    /\ deployment_type = "LOCAL"
    /\ name_allowed = TRUE
    /\ enable_load_balancing = FALSE
    /\ port_number = None
    /\ torch_dist_port = None
    /\ lb_config = None
    /\ score_file = None
    /\ deployed = "nothing"
    /\ error = NoError
    /\ AllocInit

\* the deploying process holds no query handle
NoHandle ==
    /\ handle = "none"
    /\ num_clients = 0
    /\ task_known = TRUE
    /\ cpc = "idle"
    /\ calls = 0
    /\ term_rank = 0
    /\ tasks = {}
    /\ ready = <<>>
    /\ responses = <<>>
    /\ waiting_on = None
    /\ last_result = None
    /\ terminated = <<>>

ClientNext ==
    \/ ClientQuery
    \/ ClientTerminate
    \/ TensorParallelQuery
    \/ TensorParallelTerminate
    \/ RpcComplete
    \/ RunReady

ClientStart == ClientInit /\ NoDeploy

ClientSpec == ClientStart /\ [][ClientNext]_vars

Init == DeployInit /\ AllocInit /\ NoHandle

Next ==
    \/ DeployValidate
    \/ SkipLoadBalancer
    \/ AllocCall
    \/ ForNext
    \/ WhileStep
    \/ AllocFinish
    \/ BuildLoadBalancerConfig
    \/ CreateScoreFile
    \/ DeployDispatch

Spec == Init /\ [][Next]_vars

\* ------------------------------------------------- vocabulary of the claims
RECURSIVE SumSeq(_)
SumSeq(s) == IF s = <<>> THEN 0 ELSE Head(s) + SumSeq(Tail(s))

TotalSlots(pool) == SumSeq(pool)
\* how many width-sized blocks fit on each host, summed over the first n hosts
BlocksBefore(pool, width, n) == SumSeq([h \in 1..n |-> pool[h] \div width])
EligibleBlocks(pool, width) == BlocksBefore(pool, width, Len(pool))

AllocDone == apc \in {"returned", "raised"}
ValidArgs == tensor_parallel > 0 /\ num_replicas > 0 /\ Len(resource_pool) > 0

\* exactly `count` allocations of `width` slot indices each, no (host, slot) used twice
WellFormedAllocations(pool, width, count) ==
    /\ Len(pool) = count
    /\ \A k \in 1..Len(pool) : Len(pool[k].gpu_indices) = width
    /\ \A k1, k2 \in 1..Len(pool) :
        \A i1 \in 1..Len(pool[k1].gpu_indices), i2 \in 1..Len(pool[k2].gpu_indices) :
            (/\ pool[k1].hostname = pool[k2].hostname
             /\ pool[k1].gpu_indices[i1] = pool[k2].gpu_indices[i2])
            => (k1 = k2 /\ i1 = i2)

BlocksOn(pool, host) == Cardinality({k \in 1..Len(pool) : pool[k].hostname = host})

\* C1 as stated: whenever the total slot count is at least width * replica_count,
\* _allocate_processes returns replica_count disjoint allocations of width slots.
C1_TotalSlotsSuffice ==
    (AllocDone /\ ValidArgs
        /\ TotalSlots(resource_pool) >= tensor_parallel * num_replicas)
    => (apc = "returned"
        /\ WellFormedAllocations(replica_pool, tensor_parallel, num_replicas))

\* C1 amended: whenever the hosts together hold at least replica_count whole
\* width-sized blocks (the sum over hosts of slots div width), _allocate_processes
\* returns exactly replica_count allocations, each of exactly width slot indices,
\* and no (host, slot_index) pair appears twice.
C1_WholeBlocksSuffice ==
    (AllocDone /\ ValidArgs
        /\ EligibleBlocks(resource_pool, tensor_parallel) >= num_replicas)
    => (apc = "returned"
        /\ WellFormedAllocations(replica_pool, tensor_parallel, num_replicas))

\* three replicas of width >= 2 carved from two hosts
C1_Witness ==
    /\ apc = "returned" /\ ValidArgs
    /\ num_replicas >= 3
    /\ tensor_parallel >= 2
    /\ Len(replica_pool) = num_replicas
    /\ BlocksOn(replica_pool, 1) >= 2
    /\ BlocksOn(replica_pool, 2) >= 1

\* C2: when the whole blocks of the pool are fewer than replica_count (eligible
\* capacity below width * replica_count), _allocate_processes raises the
\* no-sufficient-GPUs error carrying the requested and the allocated count, and
\* the caller gets no allocation: deploy stops with that error, nothing built.
C2_InsufficientClusterCapacity ==
    (AllocDone /\ ValidArgs
        /\ EligibleBlocks(resource_pool, tensor_parallel) * tensor_parallel
             < tensor_parallel * num_replicas)
    => (/\ apc = "raised"
        /\ dpc = "raised"
        /\ error = <<"NoSufficientGPUs", num_replicas,
                     EligibleBlocks(resource_pool, tensor_parallel)>>
        /\ lb_config = None
        /\ score_file = None)

\* pool {hostA: 4}, width 4, replica_count 2 reports requested = 2, allocated = 1
C2_Witness ==
    /\ apc = "raised"
    /\ resource_pool = <<4>> /\ tensor_parallel = 4 /\ num_replicas = 2
    /\ error = <<"NoSufficientGPUs", 2, 1>>

\* the first host with fewer than width slots that the scan reaches while fewer
\* than replica_count allocations exist; 0 if there is none
FirstShortHost(pool, width, count) ==
    LET short == {h \in 1..Len(pool) :
                    pool[h] < width /\ BlocksBefore(pool, width, h - 1) < count}
    IN  IF short = {} THEN 0 ELSE CHOOSE h \in short : \A g \in short : h <= g

\* C3: a host with fewer than width slots, reached while fewer than replica_count
\* allocations exist, makes the allocation fail with the host-capacity error
\* naming that host, its slots and the width.
C3_ShortHostRaises ==
    (AllocDone /\ ValidArgs
        /\ FirstShortHost(resource_pool, tensor_parallel, num_replicas) # 0)
    => LET h == FirstShortHost(resource_pool, tensor_parallel, num_replicas)
       IN  /\ apc = "raised"
           /\ error = <<"HostSlots", h, resource_pool[h], tensor_parallel>>

\* C4: a returned result is the first-fit carving in pool order: hosts appear in
\* pool order; the k-th block of a host is [k*width, (k+1)*width), below the
\* host's slot count; a host contributes only once every earlier host has fewer
\* than width slots left; nothing is carved after the replica_count-th block.
C4_FirstFitCarving ==
    (apc = "returned" /\ ValidArgs)
    => /\ Len(replica_pool) = num_replicas
       /\ \A k \in 1..Len(replica_pool) :
            LET host == replica_pool[k].hostname
                nth == Cardinality({j \in 1..(k - 1) : replica_pool[j].hostname = host})
            IN  /\ host \in 1..Len(resource_pool)
                /\ replica_pool[k].gpu_indices
                     = Range(nth * tensor_parallel, (nth + 1) * tensor_parallel)
                /\ (nth + 1) * tensor_parallel <= resource_pool[host]
                /\ k > 1 => replica_pool[k - 1].hostname <= host
                /\ \A earlier \in 1..(host - 1) :
                     resource_pool[earlier]
                        - tensor_parallel * BlocksOn(SubSeq(replica_pool, 1, k - 1), earlier)
                     < tensor_parallel

\* {hostA: 8, hostB: 4}, width 4, replica_count 3
C4_Witness ==
    /\ apc = "returned"
    /\ resource_pool = <<8, 4>> /\ tensor_parallel = 4 /\ num_replicas = 3
    /\ replica_pool = << [hostname |-> 1, gpu_indices |-> <<0, 1, 2, 3>>],
                         [hostname |-> 1, gpu_indices |-> <<4, 5, 6, 7>>],
                         [hostname |-> 2, gpu_indices |-> <<0, 1, 2, 3>>] >>

\* every port of lb_config, listed with repetitions
RECURSIVE Flatten(_)
Flatten(ss) == IF ss = <<>> THEN <<>> ELSE Head(ss) \o Flatten(Tail(ss))
AllPorts(config) ==
    <<config.port>>
    \o Flatten([k \in 1..Len(config.replica_configs) |->
                    config.replica_configs[k].tensor_parallel_ports])
    \o [k \in 1..Len(config.replica_configs) |-> config.replica_configs[k].torch_dist_port]
Distinct(s) == \A i, j \in 1..Len(s) : s[i] = s[j] => i = j

\* C7: the listener port, every worker port and every torch_dist port of the
\* LoadBalancerConfig deploy builds are pairwise distinct.
C7_PortsPairwiseDistinct ==
    (lb_config # None /\ ValidArgs) => Distinct(AllPorts(lb_config))

\* C8 as stated: with one replica the first worker port is port_number (no
\* offset); with more than one, replica i starts at port_number + i*width + 1.
C8_OffsetOnlyForSeveralReplicas ==
    (lb_config # None /\ ValidArgs)
    => LET configs == lb_config.replica_configs
       IN  \A k \in 1..Len(configs) :
             configs[k].tensor_parallel_ports[1]
               = port_number + (k - 1) * tensor_parallel
                   + (IF Len(configs) > 1 THEN 1 ELSE 0)

\* C8 amended: in every LoadBalancerConfig deploy builds (it builds one exactly
\* when enable_load_balancing is set) the listener-offset port is reserved,
\* whatever the replica count: replica i's first worker port is
\* port_number + i*width + 1, also with a single replica.
C8_OffsetWheneverLoadBalancing ==
    /\ (lb_config # None) => enable_load_balancing
    /\ (lb_config # None /\ ValidArgs)
       => LET configs == lb_config.replica_configs
          IN  \A k \in 1..Len(configs) :
                configs[k].tensor_parallel_ports[1]
                  = port_number + (k - 1) * tensor_parallel + 1

\* a single replica whose first worker port is port_number + 1
C8_Witness ==
    /\ lb_config # None /\ ValidArgs
    /\ Len(lb_config.replica_configs) = 1
    /\ lb_config.replica_configs[1].tensor_parallel_ports[1] = port_number + 1

\* the tasks of the call the handle is in, or was last in
CallTasks == {t \in tasks : t.call = calls}
Rank0Request == {t \in CallTasks : t.kind = "request" /\ t.rank = 0}
QueryReturned ==
    /\ handle = "MIITensorParallelClient"
    /\ cpc = "idle"
    /\ \E t \in CallTasks : t.kind = "request"
TerminateReturned ==
    /\ handle = "MIITensorParallelClient"
    /\ cpc = "idle"
    /\ \E t \in CallTasks : t.kind = "terminate"
\* the stub method of the task was invoked: a message went to the worker
Sent(task) ==
    \/ task.st \in {"awaiting", "done"}
    \/ (task.st = "failed" /\ task.err = "TransportError")

\* C5: when rank 0's request succeeds, MIITensorParallelClient.query returns rank
\* 0's response, and a response it returns is never another rank's, whatever the
\* order in which the ranks complete.
C5_ReturnsRankZero ==
    QueryReturned
    => /\ \A t \in Rank0Request : t.st = "done" => last_result = <<"ok", <<calls, 0>>>>
       /\ last_result[1] = "ok" => last_result[2] = <<calls, 0>>

\* three ranks, rank 0 neither first nor last: rank 1 answered, rank 2 has not
C5_Witness ==
    /\ QueryReturned
    /\ num_clients = 3
    /\ last_result = <<"ok", <<calls, 0>>>>
    /\ \E t \in CallTasks : t.rank = 1 /\ t.st = "done"
    /\ \E t \in CallTasks : t.rank = 2 /\ t.st = "awaiting"

\* C6: once MIITensorParallelClient.query has returned its response, no request
\* of it is in flight on any rank, so a rank connection never has two outstanding
\* requests.
C6_NoRequestOutlivesQuery ==
    /\ (QueryReturned /\ last_result[1] = "ok") => \A t \in tasks : ~InFlight(t)
    /\ handle = "MIITensorParallelClient"
       => \A r \in 0..(num_clients - 1) :
            Cardinality({t \in tasks : t.kind = "request" /\ t.rank = r /\ InFlight(t)}) <= 1

\* C9: MIITensorParallelClient.terminate attempts the termination of every rank,
\* also after a rank's termination failed, and reports every failure.
C9_TerminatesEveryRank ==
    TerminateReturned
    => /\ \A r \in 0..(num_clients - 1) :
            \E t \in CallTasks : t.kind = "terminate" /\ t.rank = r /\ Sent(t)
       /\ (\E t \in CallTasks : t.st = "failed") => last_result[1] = "raised"

\* C10: after terminate completed on an MIIClient, a query call on it sends no
\* request to the worker and fails with the client-terminated error.
C10_QueryAfterTerminateRefused ==
    (handle = "MIIClient" /\ task_known /\ terminated[0] # 0)
    => \A t \in tasks :
         (t.kind = "request" /\ t.call > terminated[0])
         => /\ ~Sent(t)
            /\ t.st \in {"done", "failed"} => t.err = "ClientTerminated"

\* C11: a width <= 0 or a replica_count <= 0 makes _allocate_processes fail with
\* an invalid-argument error; it returns no result for such arguments.
C11_InvalidArgumentsRejected ==
    (AllocDone /\ Len(resource_pool) > 0 /\ (tensor_parallel <= 0 \/ num_replicas <= 0))
    => (apc = "raised" /\ error = <<"InvalidArgument">>)

\* deploy has not got past its validation: nothing allocated, built, written or deployed
NothingStarted ==
    /\ apc = "idle"
    /\ lb_config = None
    /\ score_file = None
    /\ deployed = "nothing"

\* C12 as stated: a deployment name with a character outside [A-Za-z0-9-] makes
\* deploy fail in its validation, before allocation, score file and deployment.
C12_BadNameRejected ==
    (~name_allowed /\ dpc # "start")
    => (/\ dpc = "raised"
        /\ error \in {<<"AMLDeploymentName">>, <<"MIIConfig">>}
        /\ NothingStarted)

\* C12 amended: for an AML deployment, a deployment name with a character outside
\* [A-Za-z0-9-] makes deploy fail with the AML-name assertion (or, before it, with
\* the config check of lines 69-75), before allocation, score file and deployment.
C12_BadAmlNameRejected ==
    (deployment_type = "AML" /\ ~name_allowed /\ dpc # "start")
    => (/\ dpc = "raised"
        /\ error \in {<<"AMLDeploymentName">>, <<"MIIConfig">>}
        /\ NothingStarted)

\* an AML deployment stopped by its name
C12_Witness ==
    /\ deployment_type = "AML" /\ ~name_allowed
    /\ dpc = "raised"
    /\ error = <<"AMLDeploymentName">>

AllocationErrors ==
    {<<"NoHostsFound">>}
    \cup {<<"HostSlots", h, n, w>> : h \in 1..MaxHosts, n \in 0..MaxSlots, w \in Widths}
    \cup {<<"NoSufficientGPUs", n, a>> : n \in ReplicaCounts, a \in ReplicaCounts}

\* C13: when the replica allocation fails, deploy is aborted with that error and
\* nothing is persisted or deployed: no LoadBalancerConfig, no score file, no
\* local or AML deployment step.
C13_AllocationFailureAborts ==
    (apc = "raised")
    => (/\ dpc = "raised"
        /\ error \in AllocationErrors
        /\ lb_config = None
        /\ score_file = None
        /\ deployed = "nothing")

\* the allocation failed after it had carved a replica
C13_Witness ==
    /\ apc = "raised"
    /\ dpc = "raised"
    /\ error[1] = "NoSufficientGPUs"
    /\ allocated_num >= 1
    /\ score_file = None

\* C14: by the time MIITensorParallelClient.query returns rank 0's response, the
\* query has created one request task per rank, each for this call's request and
\* no rank twice, and every one of them has sent its request to its worker.
C14_EveryRankDispatched ==
    (QueryReturned /\ last_result[1] = "ok")
    => /\ Len(responses) = num_clients
       /\ \A r \in 0..(num_clients - 1) :
            Cardinality({i \in 1..Len(responses) : responses[i][2] = r}) = 1
       /\ \A i \in 1..Len(responses) :
            /\ responses[i][1] = calls
            /\ responses[i][3] = "request"
            /\ \E t \in tasks : Key(t) = responses[i] /\ Sent(t)

\* three ranks, rank 0 the fastest: ranks 1 and 2 still wait for their answers
C14_Witness ==
    /\ QueryReturned
    /\ num_clients = 3
    /\ last_result[1] = "ok"
    /\ \A t \in CallTasks : t.rank # 0 => t.st = "awaiting"

\* C15: in the LoadBalancerConfig deploy builds, the listener port is port_number
\* and the replica at rank i has exactly width worker ports, the consecutive
\* integers from port_number + i*width + offset (offset 1, the load-balancer
\* reservation), the coordination port torch_dist_port + i, and the host and
\* slot indices of the i-th allocation.
C15_PortLayout ==
    (lb_config # None)
    => LET configs == lb_config.replica_configs
           offset == IF enable_load_balancing THEN 1 ELSE 0
       IN  /\ lb_config.port = port_number
           /\ Len(configs) = Len(replica_pool)
           /\ \A k \in 1..Len(configs) :
                /\ Len(configs[k].tensor_parallel_ports) = tensor_parallel
                /\ \A j \in 1..Len(configs[k].tensor_parallel_ports) :
                     configs[k].tensor_parallel_ports[j]
                       = port_number + (k - 1) * tensor_parallel + offset + (j - 1)
                /\ configs[k].torch_dist_port = torch_dist_port + (k - 1)
                /\ configs[k].hostname = replica_pool[k].hostname
                /\ configs[k].gpu_indices = replica_pool[k].gpu_indices

\* three replicas of width 4 on two hosts; the third starts at port_number + 9
C15_Witness ==
    /\ lb_config # None
    /\ tensor_parallel = 4
    /\ Len(lb_config.replica_configs) = 3
    /\ lb_config.replica_configs[3].hostname = 2
    /\ lb_config.replica_configs[3].tensor_parallel_ports
         = <<port_number + 9, port_number + 10, port_number + 11, port_number + 12>>
    /\ lb_config.replica_configs[3].torch_dist_port = torch_dist_port + 2

====
